---------------------------- MODULE Spec2Model ----------------------------
(***************************************************************************)
(* A model of youtube_sleeptrack.py: the record normaliser (parse_record,  *)
(* load_and_parse_histories), the sleep-interval detector                  *)
(* (estimate_sleep_periods), the day bucketer (compute_estimated_durations,*)
(* aggregate_day_metrics), the weekly / daily roll-ups and main().         *)
(*                                                                         *)
(* Time.  An instant is an integer number of ticks since                   *)
(* 2024-08-22T00:00:00Z (main's start_range), TicksPerSecond ticks to the  *)
(* second, so that an instant can lie strictly between two whole seconds   *)
(* (pandas keeps nanoseconds).  A Timestamp is [value, tz]: tz_convert     *)
(* keeps the instant and changes the zone, and the wall-clock fields       *)
(* (.hour, .minute, .second) are read through the zone's UTC offset.       *)
(* Durations (Timedelta, total_seconds()) are kept in ticks.               *)
(***************************************************************************)
EXTENDS Integers, Sequences, FiniteSets, TLC

VARIABLES
    pc,                      \* position inside main() / the function calls
    watch_data,              \* raw records of history/watch-history.json
    search_data,             \* raw records of history/search-history.json
    records,                 \* main: records (list of parsed dicts)
    df,                      \* the "datetime" column of df
    threshold_hours,         \* estimate_sleep_periods' threshold_hours
    sleep_df,                \* rows of sleep_df
    day_df,                  \* rows of day_df
    weekly_day,              \* rows of aggregate_weekly's result
    weekly_sleep,            \* rows of aggregate_sleep_by_week's result
    daily_sleep_last_month,  \* rows of aggregate_sleep_by_day's result
    last_month_day_df,       \* rows of last_month_day_df
    graphs,                  \* files saved under graphs/
    stdout,                  \* lines printed
    calls                    \* the pipeline functions called so far, in order

vars == <<pc, watch_data, search_data, records, df, threshold_hours, sleep_df,
          day_df, weekly_day, weekly_sleep, daily_sleep_last_month,
          last_month_day_df, graphs, stdout, calls>>

-----------------------------------------------------------------------------
(* Bounds of the model *)

TicksPerSecond == 2
MaxEvents == 5
MaxWatch == 2
MaxSearch == 1

-----------------------------------------------------------------------------
(* Units and calendar *)

Second == TicksPerSecond
Minute == 60 * Second
Hour == 60 * Minute
Day == 24 * Hour

\* hh:mm:ss plus sub ticks on day d (days since 2024-08-22), as an instant
At(d, h, m, s, sub) == d * Day + h * Hour + m * Minute + s * Second + sub

UTC == "UTC"
NewYork == "America/New_York"
Naive == "naive"

Timestamp(v, z) == [value |-> v, tz |-> z]

\* Python's None, where a Timestamp is expected
None == [value |-> 0, tz |-> "None"]

\* US Eastern transitions around the analysed range:
\* 2024-03-10T07:00Z (EDT begins), 2024-11-03T06:00Z (EST), 2025-03-09T07:00Z (EDT)
DstStart2024 == At(-165, 7, 0, 0, 0)
DstEnd2024 == At(73, 6, 0, 0, 0)
DstStart2025 == At(199, 7, 0, 0, 0)

\* utcoffset() of a Timestamp, for instants of 2024 and 2025 up to the autumn
UtcOffset(ts) ==
    IF ts.tz = NewYork
    THEN IF ts.value >= DstStart2024 /\ ts.value < DstEnd2024 THEN -4 * Hour
         ELSE IF ts.value >= DstStart2025 THEN -4 * Hour
         ELSE -5 * Hour
    ELSE 0

tz_convert(ts, zone) == Timestamp(ts.value, zone)

\* ticks since the local midnight of ts
TimeOfDay(ts) == (ts.value + UtcOffset(ts)) % Day

hour(ts) == TimeOfDay(ts) \div Hour
minute(ts) == (TimeOfDay(ts) % Hour) \div Minute
second(ts) == (TimeOfDay(ts) % Minute) \div Second

\* whole local days since the epoch's local date: the date component of ts
date(ts) == (ts.value + UtcOffset(ts)) \div Day

\* hour + minute / 60 + second / 3600, scaled by 3600 to stay an integer
FractionalHour(ts) == hour(ts) * 3600 + minute(ts) * 60 + second(ts)

Timedelta(hours) == hours * Hour

-----------------------------------------------------------------------------
(* Sequences *)

Min(a, b) == IF a <= b THEN a ELSE b
Max(a, b) == IF a >= b THEN a ELSE b

Remove(s, i) == SubSeq(s, 1, i - 1) \o SubSeq(s, i + 1, Len(s))

RECURSIVE SumSeq(_)
SumSeq(s) == IF s = <<>> THEN 0 ELSE Head(s) + SumSeq(Tail(s))

\* a finite set of integers as an ascending sequence
RECURSIVE Ascending(_)
Ascending(S) ==
    IF S = {} THEN <<>>
    ELSE LET m == CHOOSE m \in S : \A x \in S : m <= x
         IN  <<m>> \o Ascending(S \ {m})

\* ascending by instant, ties in input order
RECURSIVE SortByValue(_)
SortByValue(s) ==
    IF s = <<>> THEN <<>>
    ELSE LET i == CHOOSE i \in 1..Len(s) :
                    \A j \in 1..Len(s) :
                        \/ s[i].value < s[j].value
                        \/ (s[i].value = s[j].value /\ i <= j)
         IN  <<s[i]>> \o SortByValue(Remove(s, i))

-----------------------------------------------------------------------------
(* estimate_sleep_periods *)

\* mutant: the frame is scanned in the order given
sort_values_Unsorted(frame) == frame

\* df.sort_values("datetime").reset_index(drop=True)
sort_values(frame) == SortByValue(frame)

\* df_sorted.loc[i, "time_diff"] > threshold, i a 1-based row with a predecessor
ExceedsThreshold(df_sorted, i, threshold) ==
    df_sorted[i].value - df_sorted[i - 1].value > threshold

DurationOk(duration) ==
    ~ (duration < Timedelta(3) \/ duration > Timedelta(12))

FinalHourOk(final_video_hour) ==
    2 * 3600 <= final_video_hour /\ final_video_hour <= 7 * 3600

FirstHourOk(first_video_hour) ==
    10 * 3600 <= first_video_hour /\ first_video_hour <= 14 * 3600

\* the dict appended for rows i-1, i
SleepRow(df_sorted, i) ==
    LET sleep_start_est == tz_convert(df_sorted[i - 1], NewYork)
        sleep_end_est == tz_convert(df_sorted[i], NewYork)
    IN  [sleep_start |-> sleep_start_est,
         sleep_end |-> sleep_end_est,
         duration |-> sleep_end_est.value - sleep_start_est.value,
         final_video_hour |-> FractionalHour(sleep_start_est),
         first_video_hour |-> FractionalHour(sleep_end_est)]

\* mutant: every gap above the threshold is kept, the three checks skipped
SleepRowsAt_NoValidation(df_sorted, i, threshold) ==
    IF ExceedsThreshold(df_sorted, i, threshold)
    THEN <<SleepRow(df_sorted, i)>>
    ELSE <<>>

\* the body of the loop for row i: the rows it appends to sleep_periods
SleepRowsAt(df_sorted, i, threshold) ==
    IF ExceedsThreshold(df_sorted, i, threshold)
    THEN LET row == SleepRow(df_sorted, i)
         IN  IF ~ DurationOk(row.duration) THEN <<>>
             ELSE IF ~ FinalHourOk(row.final_video_hour) THEN <<>>
             ELSE IF ~ FirstHourOk(row.first_video_hour) THEN <<>>
             ELSE <<row>>
    ELSE <<>>

\* for i in range(1, len(df_sorted)), from row i on
RECURSIVE SleepLoop(_, _, _)
SleepLoop(df_sorted, i, threshold) ==
    IF i > Len(df_sorted) THEN <<>>
    ELSE SleepRowsAt(df_sorted, i, threshold)
             \o SleepLoop(df_sorted, i + 1, threshold)

estimate_sleep_periods(frame, hours) ==
    SleepLoop(sort_values(frame), 2, Timedelta(hours))

-----------------------------------------------------------------------------
(* compute_estimated_durations, aggregate_day_metrics *)

cap_seconds == 900

\* for i in range(len(times) - 1), from the 1-based position i on
RECURSIVE DurationsLoop(_, _)
DurationsLoop(times, i) ==
    IF i > Len(times) - 1 THEN <<>>
    ELSE LET gap_sec == times[i + 1].value - times[i].value
         IN  <<Min(gap_sec, cap_seconds * Second)>> \o DurationsLoop(times, i + 1)

\* mutant: the gaps are not capped
compute_estimated_durations_Uncapped(events) ==
    [i \in 1..Len(events) - 1 |-> events[i + 1].value - events[i].value]

compute_estimated_durations(events) == DurationsLoop(events, 1)

\* a quotient a / b kept exact
Fraction(a, b) == [num |-> a, den |-> b]

\* df["datetime"].max(), frame not empty
MaxTimestamp(frame) ==
    CHOOSE t \in {frame[i] : i \in 1..Len(frame)} :
        \A j \in 1..Len(frame) : frame[j].value <= t.value

Column(frame, name) == [i \in 1..Len(frame) |-> frame[i][name]]

\* mutant: the last event is never appended as a boundary
DayBoundaries_NoTrailing(frame, sleeps) ==
    SortByValue(Column(sleeps, "sleep_end"))

\* sorted(sleep_df["sleep_end"].tolist()), with the last event appended when later
DayBoundaries(frame, sleeps) ==
    LET sleep_end_times == SortByValue(Column(sleeps, "sleep_end"))
        last_event_time == MaxTimestamp(frame)
    IN  IF last_event_time.value > sleep_end_times[Len(sleep_end_times)].value
        THEN Append(sleep_end_times, last_event_time)
        ELSE sleep_end_times

\* mutant: the event at day_start is left out
DaySubset_ExclusiveStart(frame, day_start, day_end) ==
    sort_values(SelectSeq(frame,
        LAMBDA t : t.value > day_start.value /\ t.value < day_end.value))

\* df[(df["datetime"] >= day_start) & (df["datetime"] < day_end)].sort_values("datetime")
DaySubset(frame, day_start, day_end) ==
    sort_values(SelectSeq(frame,
        LAMBDA t : t.value >= day_start.value /\ t.value < day_end.value))

\* mutant: the average divides by the number of events, not of gaps
DayRow_AveragePerEvent(day_start, day_end, subset) ==
    LET durations == compute_estimated_durations(subset)
        total_time == IF durations # <<>> THEN SumSeq(durations) ELSE 0
    IN  [day_start |-> day_start,
         day_end |-> day_end,
         total_videos |-> Len(subset),
         total_time |-> total_time,
         avg_duration |-> IF durations # <<>>
                          THEN Fraction(total_time, Len(subset))
                          ELSE Fraction(0, 1),
         length_diff |-> IF durations # <<>>
                         THEN durations[1] - durations[Len(durations)]
                         ELSE 0]

\* the dict appended for a non-empty subset
DayRow(day_start, day_end, subset) ==
    LET durations == compute_estimated_durations(subset)
        total_time == IF durations # <<>> THEN SumSeq(durations) ELSE 0
    IN  [day_start |-> day_start,
         day_end |-> day_end,
         total_videos |-> Len(subset),
         total_time |-> total_time,
         avg_duration |-> IF durations # <<>>
                          THEN Fraction(total_time, Len(durations))
                          ELSE Fraction(0, 1),
         length_diff |-> IF durations # <<>>
                         THEN durations[1] - durations[Len(durations)]
                         ELSE 0]

\* for i in range(1, len(sleep_end_times)), from the 1-based position i on
RECURSIVE DayLoop(_, _, _)
DayLoop(frame, sleep_end_times, i) ==
    IF i > Len(sleep_end_times) THEN <<>>
    ELSE LET day_start == sleep_end_times[i - 1]
             day_end == sleep_end_times[i]
             subset == DaySubset(frame, day_start, day_end)
         IN  (IF subset = <<>> THEN <<>> ELSE <<DayRow(day_start, day_end, subset)>>)
                 \o DayLoop(frame, sleep_end_times, i + 1)

\* defined for a sleep_df with rows; with none, line 134 raises KeyError
aggregate_day_metrics(frame, sleeps) ==
    DayLoop(frame, DayBoundaries(frame, sleeps), 2)

-----------------------------------------------------------------------------
(* aggregate_weekly, aggregate_sleep_by_week, aggregate_sleep_by_day *)

FractionAdd(x, y) == Fraction(x.num * y.den + y.num * x.den, x.den * y.den)

RECURSIVE FractionSum(_)
FractionSum(s) ==
    IF s = <<>> THEN Fraction(0, 1) ELSE FractionAdd(Head(s), FractionSum(Tail(s)))

\* the mean of a non-empty column of fractions, and of integers
FractionMean(s) == Fraction(FractionSum(s).num, FractionSum(s).den * Len(s))
Mean(s) == Fraction(SumSeq(s), Len(s))

\* (x - overall_start).days // 7
week_index(x, overall_start) == ((x.value - overall_start.value) \div Day) \div 7

\* groupby: the keys that occur, ascending, and the rows of frame under key k
GroupKeys(keys) == Ascending({keys[i] : i \in 1..Len(keys)})

RowsWithKey(frame, keys, k) ==
    LET idx == SelectSeq([i \in 1..Len(frame) |-> i], LAMBDA i : keys[i] = k)
    IN  [n \in 1..Len(idx) |-> frame[idx[n]]]

aggregate_weekly(days, overall_start) ==
    LET keys == [i \in 1..Len(days) |-> week_index(days[i].day_start, overall_start)]
        weeks == GroupKeys(keys)
    IN  [n \in 1..Len(weeks) |->
            LET rows == RowsWithKey(days, keys, weeks[n])
            IN  [week_index |-> weeks[n],
                 total_videos |-> SumSeq(Column(rows, "total_videos")),
                 total_time |-> SumSeq(Column(rows, "total_time")),
                 avg_duration |-> FractionMean(Column(rows, "avg_duration")),
                 length_diff |-> Mean(Column(rows, "length_diff"))]]

aggregate_sleep_by_week(sleeps, overall_start) ==
    LET keys == [i \in 1..Len(sleeps) |->
                    week_index(sleeps[i].sleep_start, overall_start)]
        weeks == GroupKeys(keys)
    IN  [n \in 1..Len(weeks) |->
            LET rows == RowsWithKey(sleeps, keys, weeks[n])
            IN  [week_index |-> weeks[n],
                 final_video_hour |-> Mean(Column(rows, "final_video_hour")),
                 first_video_hour |-> Mean(Column(rows, "first_video_hour"))]]

aggregate_sleep_by_day(sleeps, start_date, end_date) ==
    LET sleep_day == SelectSeq(sleeps,
                         LAMBDA row : /\ row.sleep_start.value >= start_date.value
                                      /\ row.sleep_start.value <= end_date.value)
        keys == [i \in 1..Len(sleep_day) |-> date(sleep_day[i].sleep_start)]
        days == GroupKeys(keys)
    IN  [n \in 1..Len(days) |->
            LET rows == RowsWithKey(sleep_day, keys, days[n])
            IN  [day |-> days[n],
                 final_video_hour |-> Mean(Column(rows, "final_video_hour")),
                 first_video_hour |-> Mean(Column(rows, "first_video_hour"))]]

-----------------------------------------------------------------------------
(* parse_record, load_and_parse_histories *)

\* A raw record: details, the "name" of each entry of its details list (<<>> when
\* there is none); title, its words (<<>> when it has no title); time, the time
\* field as [kind, value], kind one of "aware" (an ISO-8601 string with a Z or an
\* offset), "naive" (a date and time with no zone), "malformed", "missing".
RawRecord(details, title, time) == [details |-> details, title |-> title, time |-> time]

\* str.strip() on the names that occur
strip(name) == IF name = " From Google Ads " THEN "From Google Ads" ELSE name

\* title.startswith("Watched")
startswith_Watched(title) == title # <<>> /\ Head(title) = "Watched"

\* pd.to_datetime(time_str): raises on a malformed string, gives None for None
to_datetime_raises(time) == time.kind = "malformed"

to_datetime(time) ==
    CASE time.kind = "aware" -> Timestamp(time.value, UTC)
      [] time.kind = "naive" -> Timestamp(time.value, Naive)
      [] OTHER -> None

\* the dicts parse_record returns: none (it returned None) or one
parse_record(record) ==
    IF \E i \in 1..Len(record.details) : strip(record.details[i]) = "From Google Ads"
    THEN <<>>
    ELSE IF ~ startswith_Watched(record.title) THEN <<>>
    ELSE IF to_datetime_raises(record.time) THEN <<>>
    ELSE <<[datetime |-> to_datetime(record.time), title |-> record.title]>>

RECURSIVE ParseAll(_)
ParseAll(data) ==
    IF data = <<>> THEN <<>> ELSE parse_record(Head(data)) \o ParseAll(Tail(data))

load_and_parse_histories(watch, search) == ParseAll(watch) \o ParseAll(search)

-----------------------------------------------------------------------------
(* main *)

\* def estimate_sleep_periods(df, threshold_hours=5); main passes 5 as well
DefaultThresholdHours == 5

\* the sequences over S of length at most n
SeqsUpTo(S, n) == UNION {[1..k -> S] : k \in 0..n}

\* pd.to_datetime("2024-08-22").tz_localize("UTC") and the other fixed instants
start_range == Timestamp(At(0, 0, 0, 0, 0), UTC)
end_range == Timestamp(At(184, 0, 0, 0, 0), UTC)
last_month_end == Timestamp(At(171, 0, 0, 0, 0), UTC)
last_month_start == Timestamp(last_month_end.value - 30 * Day, UTC)

GraphFiles ==
    {"weekly_sleep_times_6m.png", "daily_sleep_times_last_month.png",
     "daily_metrics_6m.png", "daily_metrics_last_month.png",
     "video_length_diff_hist_6m.png", "sleep_duration_hist_6m.png",
     "final_time_vs_sleep_duration.png"}

\* the raw records tried; 05:00, 11:00, 12:00 Eastern of 2025-01-19 (UTC-5), and
\* 2025-02-28, past end_range
Watched == <<"Watched", "video">>
Aware(v) == [kind |-> "aware", value |-> v]

RawRecords ==
    {RawRecord(<<>>, Watched, Aware(At(150, 10, 0, 0, 0))),
     RawRecord(<<>>, Watched, Aware(At(150, 16, 0, 0, 0))),
     RawRecord(<<"Details">>, Watched, Aware(At(150, 17, 0, 0, 0))),
     RawRecord(<<" From Google Ads ">>, Watched, Aware(At(150, 17, 0, 0, 0))),
     RawRecord(<<>>, <<"Searched", "for">>, Aware(At(150, 10, 0, 0, 0))),
     RawRecord(<<>>, Watched, [kind |-> "malformed", value |-> 0]),
     RawRecord(<<>>, Watched, [kind |-> "missing", value |-> 0]),
     RawRecord(<<>>, Watched, [kind |-> "naive", value |-> At(150, 10, 0, 0, 0)]),
     RawRecord(<<>>, Watched, Aware(At(190, 16, 0, 0, 0)))}

Init ==
    /\ pc = "load"
    /\ watch_data \in SeqsUpTo(RawRecords, MaxWatch)
    /\ search_data \in SeqsUpTo(RawRecords, MaxSearch)
    /\ threshold_hours = DefaultThresholdHours
    /\ records = <<>>
    /\ df = <<>>
    /\ sleep_df = <<>>
    /\ day_df = <<>>
    /\ weekly_day = <<>>
    /\ weekly_sleep = <<>>
    /\ daily_sleep_last_month = <<>>
    /\ last_month_day_df = <<>>
    /\ graphs = {}
    /\ stdout = <<>>
    /\ calls = <<>>

\* mutant: main goes on when no sleep period was detected
NoSleepPeriods_Never(sleeps) == FALSE

\* if not records / if sleep_df.empty / if day_df.empty
NoRecords(recs) == recs = <<>>
NoSleepPeriods(sleeps) == sleeps = <<>>
NoDayMetrics(days) == days = <<>>

\* lines 212-215
MainLoad ==
    /\ pc = "load"
    /\ LET recs == load_and_parse_histories(watch_data, search_data)
       IN  /\ records' = recs
           /\ IF NoRecords(recs)
              THEN /\ stdout' = Append(stdout, "No valid records found.")
                   /\ pc' = "returned"
              ELSE /\ stdout' = stdout
                   /\ pc' = "frame"
    /\ calls' = Append(calls, "load_and_parse_histories")
    /\ UNCHANGED <<watch_data, search_data, df, threshold_hours, sleep_df, day_df,
                   weekly_day, weekly_sleep, daily_sleep_last_month,
                   last_month_day_df, graphs>>

\* The comparison of line 221 raises TypeError when the column holds a Timestamp
\* with no zone, or nothing but None; a None beside zone-aware Timestamps is NaT,
\* which compares False.
FrameRaises(recs) ==
    \/ \E i \in 1..Len(recs) : recs[i].datetime.tz = Naive
    \/ \A i \in 1..Len(recs) : recs[i].datetime = None

\* df[(df["datetime"] >= start_range) & (df["datetime"] <= end_range)], sorted
FilterRange(recs) ==
    sort_values(SelectSeq(Column(recs, "datetime"),
        LAMBDA t : /\ t # None
                   /\ t.value >= start_range.value
                   /\ t.value <= end_range.value))

\* lines 216-222
MainFrame ==
    /\ pc = "frame"
    /\ IF FrameRaises(records)
       THEN /\ pc' = "raised"
            /\ df' = df
       ELSE /\ pc' = "detect"
            /\ df' = FilterRange(records)
    /\ UNCHANGED <<watch_data, search_data, records, threshold_hours, sleep_df,
                   day_df, weekly_day, weekly_sleep, daily_sleep_last_month,
                   last_month_day_df, graphs, stdout, calls>>

\* lines 224-227
MainDetect ==
    /\ pc = "detect"
    /\ LET sleeps == estimate_sleep_periods(df, threshold_hours)
       IN  /\ sleep_df' = sleeps
           /\ IF NoSleepPeriods(sleeps)
              THEN /\ stdout' = Append(stdout,
                          "No sleep periods detected based on the current filters.")
                   /\ pc' = "returned"
              ELSE /\ stdout' = stdout
                   /\ pc' = "bucket"
    /\ calls' = Append(calls, "estimate_sleep_periods")
    /\ UNCHANGED <<watch_data, search_data, records, df, threshold_hours, day_df,
                   weekly_day, weekly_sleep, daily_sleep_last_month,
                   last_month_day_df, graphs>>

\* lines 229-232; aggregate_day_metrics raises on a sleep_df with no rows
MainBucket ==
    /\ pc = "bucket"
    /\ calls' = Append(calls, "aggregate_day_metrics")
    /\ IF sleep_df = <<>>
       THEN /\ pc' = "raised"
            /\ UNCHANGED <<day_df, stdout>>
       ELSE LET days == aggregate_day_metrics(df, sleep_df)
            IN  /\ day_df' = days
                /\ IF NoDayMetrics(days)
                   THEN /\ stdout' = Append(stdout, "No day metrics computed.")
                        /\ pc' = "returned"
                   ELSE /\ stdout' = stdout
                        /\ pc' = "aggregate"
    /\ UNCHANGED <<watch_data, search_data, records, df, threshold_hours, sleep_df,
                   weekly_day, weekly_sleep, daily_sleep_last_month,
                   last_month_day_df, graphs>>

\* lines 234-355
MainAggregate ==
    /\ pc = "aggregate"
    /\ LET overall_start == tz_convert(start_range, NewYork)
           last_month_end_est == tz_convert(last_month_end, NewYork)
           last_month_start_est == tz_convert(last_month_start, NewYork)
       IN  /\ weekly_day' = aggregate_weekly(day_df, overall_start)
           /\ weekly_sleep' = aggregate_sleep_by_week(sleep_df, overall_start)
           /\ daily_sleep_last_month' =
                  aggregate_sleep_by_day(sleep_df, last_month_start_est,
                                         last_month_end_est)
           /\ last_month_day_df' =
                  SelectSeq(day_df,
                      LAMBDA row :
                          /\ row.day_start.value >= last_month_start_est.value
                          /\ row.day_start.value <= last_month_end_est.value)
    /\ graphs' = GraphFiles
    /\ calls' = calls \o <<"aggregate_weekly", "aggregate_sleep_by_week",
                           "aggregate_sleep_by_day">>
    /\ pc' = "done"
    /\ UNCHANGED <<watch_data, search_data, records, df, threshold_hours, sleep_df,
                   day_df, stdout>>

Next == MainLoad \/ MainFrame \/ MainDetect \/ MainBucket \/ MainAggregate

Spec == Init /\ [][Next]_vars

-----------------------------------------------------------------------------
(* The functions called directly: estimate_sleep_periods on a frame, then    *)
(* aggregate_day_metrics on the same frame and the intervals detected.       *)
(* The frame is a DataFrame with a "datetime" column of UTC Timestamps, in   *)
(* any row order, rows repeated or absent.                                   *)

U(d, h, m, s, sub) == Timestamp(At(d, h, m, s, sub), UTC)

\* 2024-09-01, clock times read as UTC
NightUTC ==
    {U(10, 0, 0, 0, 0), U(10, 0, 5, 0, 0), U(10, 5, 5, 0, 0),
     U(10, 6, 30, 0, 0), U(10, 6, 40, 0, 0)}

\* 2024-09-01, Eastern clock times 00:00, 00:05, 06:30, 06:40, 12:00 (UTC-4)
NightEastern ==
    {U(10, 4, 0, 0, 0), U(10, 4, 5, 0, 0), U(10, 10, 30, 0, 0),
     U(10, 10, 40, 0, 0), U(10, 16, 0, 0, 0)}

\* 2024-11-30 05:00, 11:00 and 2024-12-01 03:00, 11:00, 12:00 Eastern (UTC-5)
TwoNights ==
    {U(100, 10, 0, 0, 0), U(100, 16, 0, 0, 0), U(101, 8, 0, 0, 0),
     U(101, 16, 0, 0, 0), U(101, 17, 0, 0, 0)}

\* 2024-09-11 02:00, 05:00, 07:00 + 1 tick, 10:00, 14:00, 14:00 + 1 tick Eastern (UTC-4)
WindowEdges ==
    {U(20, 6, 0, 0, 0), U(20, 9, 0, 0, 0), U(20, 11, 0, 0, 1),
     U(20, 14, 0, 0, 0), U(20, 18, 0, 0, 0), U(20, 18, 0, 0, 1)}

\* 2024-11-03, the day the clocks go back: 01:30 EDT, then 02:00, 08:00, 13:30,
\* 14:00 EST
FallBack ==
    {U(73, 5, 30, 0, 0), U(73, 7, 0, 0, 0), U(73, 13, 0, 0, 0),
     U(73, 18, 30, 0, 0), U(73, 19, 0, 0, 0)}

\* 2024-12-20 04:00, 10:00, 10:10, 10:25, 10:45, 11:00 Eastern (UTC-5)
Morning ==
    {U(120, 9, 0, 0, 0), U(120, 15, 0, 0, 0), U(120, 15, 10, 0, 0),
     U(120, 15, 25, 0, 0), U(120, 15, 45, 0, 0), U(120, 16, 0, 0, 0)}

\* the inputs tried: a set of instants to draw rows from, and the thresholds
Inputs ==
    {<<NightUTC, {DefaultThresholdHours}>>,
     <<NightEastern, {DefaultThresholdHours}>>,
     <<TwoNights, {DefaultThresholdHours}>>,
     <<WindowEdges, {2, DefaultThresholdHours}>>,
     <<FallBack, {DefaultThresholdHours}>>,
     <<Morning, {DefaultThresholdHours}>>}

InitFn ==
    /\ pc = "fn_input"
    /\ \E in \in Inputs :
          /\ df \in SeqsUpTo(in[1], MaxEvents)
          /\ threshold_hours \in in[2]
    /\ watch_data = <<>>
    /\ search_data = <<>>
    /\ records = <<>>
    /\ sleep_df = <<>>
    /\ day_df = <<>>
    /\ weekly_day = <<>>
    /\ weekly_sleep = <<>>
    /\ daily_sleep_last_month = <<>>
    /\ last_month_day_df = <<>>
    /\ graphs = {}
    /\ stdout = <<>>
    /\ calls = <<>>

CallEstimate ==
    /\ pc = "fn_input"
    /\ sleep_df' = estimate_sleep_periods(df, threshold_hours)
    /\ calls' = Append(calls, "estimate_sleep_periods")
    /\ pc' = "fn_detected"
    /\ UNCHANGED <<watch_data, search_data, records, df, threshold_hours, day_df,
                   weekly_day, weekly_sleep, daily_sleep_last_month,
                   last_month_day_df, graphs, stdout>>

CallAggregate ==
    /\ pc = "fn_detected"
    /\ calls' = Append(calls, "aggregate_day_metrics")
    /\ IF sleep_df = <<>>
       THEN /\ pc' = "fn_raised"
            /\ day_df' = day_df
       ELSE /\ pc' = "fn_bucketed"
            /\ day_df' = aggregate_day_metrics(df, sleep_df)
    /\ UNCHANGED <<watch_data, search_data, records, df, threshold_hours, sleep_df,
                   weekly_day, weekly_sleep, daily_sleep_last_month,
                   last_month_day_df, graphs, stdout>>

NextFn == CallEstimate \/ CallAggregate

SpecFn == InitFn /\ [][NextFn]_vars

-----------------------------------------------------------------------------
(* Properties of the detector and the bucketer, stated on the inputs alone   *)

Detected == pc \in {"fn_detected", "fn_raised", "fn_bucketed"}
Bucketed == pc = "fn_bucketed"

Values(frame) == {frame[i].value : i \in 1..Len(frame)}

\* pairs of instants adjacent in the time-sorted frame, with a gap between them
AdjacentPairs(frame) ==
    {p \in Values(frame) \X Values(frame) :
        /\ p[1] < p[2]
        /\ ~ \E c \in Values(frame) : p[1] < c /\ c < p[2]}

EasternTimeOfDay(v) == TimeOfDay(Timestamp(v, NewYork))

\* the strict-validation conditions on a pair, time-of-day taken exactly
StrictConditions(a, b, hours) ==
    /\ b - a > hours * Hour
    /\ 3 * Hour <= b - a /\ b - a <= 12 * Hour
    /\ 2 * Hour <= EasternTimeOfDay(a) /\ EasternTimeOfDay(a) <= 7 * Hour
    /\ 10 * Hour <= EasternTimeOfDay(b) /\ EasternTimeOfDay(b) <= 14 * Hour

\* the same with the time-of-day cut to whole seconds
WholeSeconds(t) == (t \div Second) * Second

TruncatedConditions(a, b, hours) ==
    /\ b - a > hours * Hour
    /\ 3 * Hour <= b - a /\ b - a <= 12 * Hour
    /\ 2 * Hour <= WholeSeconds(EasternTimeOfDay(a))
    /\ WholeSeconds(EasternTimeOfDay(a)) <= 7 * Hour
    /\ 10 * Hour <= WholeSeconds(EasternTimeOfDay(b))
    /\ WholeSeconds(EasternTimeOfDay(b)) <= 14 * Hour

Emitted(a, b) ==
    \E i \in 1..Len(sleep_df) :
        sleep_df[i].sleep_start.value = a /\ sleep_df[i].sleep_end.value = b

EveryRowIsAdjacentPair ==
    \A i \in 1..Len(sleep_df) :
        <<sleep_df[i].sleep_start.value, sleep_df[i].sleep_end.value>>
            \in AdjacentPairs(df)

\* C1: in strict validation the detector emits an interval for a pair of adjacent
\* events of the time-sorted sequence if and only if the gap strictly exceeds the
\* threshold, 3h <= duration <= 12h, the predecessor's Eastern time-of-day lies in
\* [2:00, 7:00] and the successor's in [10:00, 14:00], bounds inclusive; a pair
\* failing a check is dropped without error.
C1_StrictIff ==
    Detected =>
        /\ EveryRowIsAdjacentPair
        /\ \A p \in AdjacentPairs(df) :
              Emitted(p[1], p[2]) <=> StrictConditions(p[1], p[2], threshold_hours)

\* C1, as the code has it: the same equivalence with each time-of-day first cut to
\* whole seconds (hour, minute and second are read, the fraction of a second is not).
C1_TruncatedIff ==
    Detected =>
        /\ EveryRowIsAdjacentPair
        /\ \A p \in AdjacentPairs(df) :
              Emitted(p[1], p[2]) <=> TruncatedConditions(p[1], p[2], threshold_hours)

\* C1, its last part: a candidate whose predecessor is at 08:00 Eastern is rejected
\* whatever its duration.
C1_EightOClockRejected ==
    Detected =>
        \A p \in AdjacentPairs(df) :
            EasternTimeOfDay(p[1]) = 8 * Hour => ~ Emitted(p[1], p[2])

\* C2: for every input sequence (any order, duplicates, fewer than 2 events giving
\* an empty output) the intervals returned are strictly ascending by start, each has
\* end > start, and each duration equals end - start.
C2_OrderedIntervals ==
    Detected =>
        /\ \A i \in 1..Len(sleep_df) :
              /\ sleep_df[i].sleep_end.value > sleep_df[i].sleep_start.value
              /\ sleep_df[i].duration
                     = sleep_df[i].sleep_end.value - sleep_df[i].sleep_start.value
        /\ \A i \in 1..Len(sleep_df) - 1 :
              sleep_df[i].sleep_start.value < sleep_df[i + 1].sleep_start.value
        /\ (Len(df) < 2 => sleep_df = <<>>)

IsSorted(frame) == \A i \in 1..Len(frame) - 1 : frame[i].value <= frame[i + 1].value

\* two intervals detected from a frame that is out of order and repeats a row
C2_Witness ==
    /\ Detected
    /\ Len(sleep_df) = 2
    /\ ~ IsSorted(df)
    /\ Cardinality(Values(df)) < Len(df)

SleepEnds == {sleep_df[i].sleep_end.value : i \in 1..Len(sleep_df)}
LatestEvent == CHOOSE v \in Values(df) : \A w \in Values(df) : w <= v
LastSleepEnd == CHOOSE v \in SleepEnds : \A w \in SleepEnds : w <= v
FirstSleepEnd == CHOOSE v \in SleepEnds : \A w \in SleepEnds : v <= w
TrailingActivity == LatestEvent > LastSleepEnd

\* the sorted boundary sequence: the sleep ends, and the latest event when later
BoundarySequence ==
    Ascending(SleepEnds \cup (IF TrailingActivity THEN {LatestEvent} ELSE {}))

\* C3: given a frame and the intervals detected from it, the DayWindows' ranges
\* exactly tile the sorted boundary sequence: one window per consecutive boundary
\* pair, each window's end the next one's start, none overlapping, no pair skipped.
C3_WindowsTileBoundaries ==
    Bucketed =>
        /\ Len(day_df) = Len(BoundarySequence) - 1
        /\ \A i \in 1..Len(day_df) :
              /\ day_df[i].day_start.value = BoundarySequence[i]
              /\ day_df[i].day_end.value = BoundarySequence[i + 1]
              /\ day_df[i].day_start.value < day_df[i].day_end.value

\* two windows: two sleep ends and a synthetic last boundary
C3_Witness ==
    /\ Bucketed
    /\ Len(day_df) = 2
    /\ TrailingActivity
    /\ day_df[1].day_end = day_df[2].day_start

\* C4: every DayWindow has total_event_count >= 1; its average gap is total /
\* max(count - 1, 1) when count > 1 and 0 otherwise; a window of one event has
\* total, average and differential 0.
C4_AverageGap ==
    Bucketed =>
        \A i \in 1..Len(day_df) :
            LET w == day_df[i]
            IN  /\ w.total_videos >= 1
                /\ w.avg_duration.den > 0
                /\ IF w.total_videos > 1
                   THEN w.avg_duration.num * Max(w.total_videos - 1, 1)
                            = w.total_time * w.avg_duration.den
                   ELSE w.avg_duration.num = 0
                /\ (w.total_videos = 1 =>
                        /\ w.total_time = 0
                        /\ w.avg_duration.num = 0
                        /\ w.length_diff = 0)

\* a window of several events with a non-zero total, and a window of one event
C4_Witness ==
    /\ Bucketed
    /\ \E i, j \in 1..Len(day_df) :
          /\ day_df[i].total_videos > 1 /\ day_df[i].total_time > 0
          /\ day_df[j].total_videos = 1

\* the events of a window, by the claim's words: day_start <= timestamp < day_end
CountIn(lo, hi) ==
    Cardinality({k \in 1..Len(df) : lo <= df[k].value /\ df[k].value < hi})

\* C5: for the time-sorted events of a DayWindow, compute_estimated_durations gives
\* one value per consecutive pair, each min(raw gap, 900 s); the window's total is
\* their sum, so 0 <= total <= 900 * (count - 1), and the differential (first capped
\* gap minus last) lies in [-900, 900].
C5_CappingLaw ==
    Bucketed =>
        \A i \in 1..Len(day_df) :
            LET w == day_df[i]
                events == DaySubset(df, w.day_start, w.day_end)
                durations == compute_estimated_durations(events)
            IN  /\ Len(events) = w.total_videos
                /\ IsSorted(events)
                /\ Len(durations) = Len(events) - 1
                /\ \A k \in 1..Len(durations) :
                      LET raw == events[k + 1].value - events[k].value
                      IN  durations[k] = IF raw <= 900 * Second THEN raw
                                         ELSE 900 * Second
                /\ w.total_time = SumSeq(durations)
                /\ 0 <= w.total_time
                /\ w.total_time <= 900 * Second * (w.total_videos - 1)
                /\ -900 * Second <= w.length_diff
                /\ w.length_diff <= 900 * Second
                /\ (durations # <<>> =>
                       w.length_diff = durations[1] - durations[Len(durations)])

\* a window whose gaps are one below the cap and one above it
C5_Witness ==
    /\ Bucketed
    /\ \E i \in 1..Len(day_df) :
          LET events == DaySubset(df, day_df[i].day_start, day_df[i].day_end)
          IN  /\ Len(events) = 3
              /\ events[2].value - events[1].value > 0
              /\ events[2].value - events[1].value < 900 * Second
              /\ events[3].value - events[2].value > 900 * Second
              /\ day_df[i].length_diff < 0

\* the four events of the night scenario on 2024-09-01, clock times read in a zone
\* whose UTC offset is off hours
NightScenario(off) ==
    {At(10, 0, 0, 0, 0) - off * Hour, At(10, 0, 5, 0, 0) - off * Hour,
     At(10, 6, 30, 0, 0) - off * Hour, At(10, 6, 40, 0, 0) - off * Hour}

\* df holds exactly the scenario's four events, in some order, read as UTC or Eastern
IsNightScenario(off) ==
    /\ Len(df) = 4
    /\ Values(df) = NightScenario(off)
    /\ threshold_hours = 5

QualifyingGaps ==
    {p \in AdjacentPairs(df) : StrictConditions(p[1], p[2], threshold_hours)}

\* exactly two qualifying gaps, one of 6h and one of 8h
TwoGapScenario ==
    /\ Cardinality(QualifyingGaps) = 2
    /\ {p[2] - p[1] : p \in QualifyingGaps} = {6 * Hour, 8 * Hour}

\* at least one event strictly between each pair of consecutive boundaries
EventBetweenBoundaries ==
    \A i \in 1..Len(BoundarySequence) - 1 :
        \E v \in Values(df) : BoundarySequence[i] < v /\ v < BoundarySequence[i + 1]

\* C7: a sequence with exactly two qualifying gaps, of 6h and 8h, yields two
\* SleepIntervals and exactly two non-empty DayWindows (given an event strictly
\* between each pair of boundaries), plus a third only if there is trailing activity.
C7_TwoWindows ==
    (Bucketed /\ TwoGapScenario /\ EventBetweenBoundaries) =>
        /\ Len(sleep_df) = 2
        /\ \/ Len(day_df) = 2
           \/ (Len(day_df) = 3 /\ TrailingActivity)

\* C7, as the code has it: two SleepIntervals and exactly one DayWindow, the one
\* between the two sleep ends, plus a second if and only if there is trailing
\* activity past the last sleep end.
C7_OneWindowPlusTrailing ==
    (Bucketed /\ TwoGapScenario) =>
        /\ Len(sleep_df) = 2
        /\ Len(day_df) = IF TrailingActivity THEN 2 ELSE 1
        /\ day_df[1].day_start.value = FirstSleepEnd
        /\ day_df[1].day_end.value = LastSleepEnd
        /\ \A i \in 1..Len(day_df) : day_df[i].total_videos >= 1

\* the two-gap scenario with trailing activity, bucketed
C7_Witness ==
    /\ Bucketed
    /\ TwoGapScenario
    /\ TrailingActivity
    /\ Len(day_df) = 2

TotalCounted == SumSeq(Column(day_df, "total_videos"))

\* C10: every event at or after the first sleep end, the latest event included, is
\* counted in exactly one DayWindow: the counts of the DayWindows add up to the
\* number of events with timestamp >= the first boundary.
C10_EveryEventCounted ==
    Bucketed =>
        TotalCounted = Cardinality({k \in 1..Len(df) : df[k].value >= FirstSleepEnd})

\* C10, as the code has it: the events counted are those from the first boundary up
\* to, and not including, the last boundary; the latest event is in no window.
C10_CountedBelowLastBoundary ==
    Bucketed =>
        /\ TotalCounted = CountIn(FirstSleepEnd, BoundarySequence[Len(BoundarySequence)])
        /\ \A i \in 1..Len(day_df) : LatestEvent >= day_df[i].day_end.value

-----------------------------------------------------------------------------
(* Properties of the normaliser and of main *)

NoAdsDetail(r) == \A i \in 1..Len(r.details) : strip(r.details[i]) # "From Google Ads"

\* the three conditions of the normaliser, the time field a zone-aware instant
Acceptable(r) ==
    /\ NoAdsDetail(r)
    /\ startswith_Watched(r.title)
    /\ r.time.kind = "aware"

\* the same, the time field only required to parse without an exception
AcceptedByCode(r) ==
    /\ NoAdsDetail(r)
    /\ startswith_Watched(r.title)
    /\ r.time.kind # "malformed"

Loaded == pc # "load" /\ pc \notin {"fn_input", "fn_detected", "fn_raised", "fn_bucketed"}

\* C8: a raw record becomes an Event only if it has no "From Google Ads" detail, its
\* title begins with "Watched" and its time field parses to a zone-aware instant; a
\* record whose time is missing, malformed or without a zone is dropped silently,
\* so every Event handed on by load_and_parse_histories carries a valid timestamp.
C8_OnlyValidEvents ==
    Loaded =>
        /\ \A i \in 1..Len(records) : records[i].datetime.tz = UTC
        /\ Len(records) = Len(SelectSeq(watch_data, Acceptable))
                              + Len(SelectSeq(search_data, Acceptable))

\* C8, as the code has it: the records kept are those with no ads detail, a
\* "Watched" title and a time field that raises no exception; a missing time is
\* kept with datetime None, a time without a zone with a naive Timestamp.
C8_KeptUnlessParseRaises ==
    Loaded =>
        /\ Len(records) = Len(SelectSeq(watch_data, AcceptedByCode))
                              + Len(SelectSeq(search_data, AcceptedByCode))
        /\ \A i \in 1..Len(records) : startswith_Watched(records[i].title)

StageOrder ==
    <<"load_and_parse_histories", "estimate_sleep_periods", "aggregate_day_metrics",
      "aggregate_weekly", "aggregate_sleep_by_week", "aggregate_sleep_by_day">>

IsPrefix(s, t) == Len(s) <= Len(t) /\ s = SubSeq(t, 1, Len(s))

Called(f) == \E i \in 1..Len(calls) : calls[i] = f

NoTablesNoCharts ==
    /\ graphs = {}
    /\ weekly_day = <<>>
    /\ weekly_sleep = <<>>
    /\ daily_sleep_last_month = <<>>
    /\ last_month_day_df = <<>>

\* C9: the stages run only in the order Normalizer, Detector, Day Bucketer, Periodic
\* Aggregator; on an empty normalised input, on no SleepInterval and on no DayWindow
\* the pipeline stops in a distinguishable non-fatal state: no later stage runs, no
\* table or chart is produced, no error is raised; aggregate_day_metrics is never
\* applied to an empty sleep-interval sequence.
C9_StagesAndTerminalStates ==
    /\ IsPrefix(calls, StageOrder)
    /\ (Loaded /\ records = <<>>) =>
          /\ pc = "returned"
          /\ calls = SubSeq(StageOrder, 1, 1)
          /\ stdout = <<"No valid records found.">>
          /\ NoTablesNoCharts /\ sleep_df = <<>> /\ day_df = <<>>
    /\ (Called("estimate_sleep_periods") /\ sleep_df = <<>>) =>
          /\ pc = "returned"
          /\ calls = SubSeq(StageOrder, 1, 2)
          /\ stdout = <<"No sleep periods detected based on the current filters.">>
          /\ NoTablesNoCharts /\ day_df = <<>>
    /\ (Called("aggregate_day_metrics") /\ day_df = <<>>) =>
          /\ pc = "returned"
          /\ calls = SubSeq(StageOrder, 1, 3)
          /\ stdout = <<"No day metrics computed.">>
          /\ NoTablesNoCharts
    /\ Called("aggregate_day_metrics") => sleep_df # <<>>
    /\ pc = "raised" => (records # <<>> /\ ~ Called("estimate_sleep_periods"))
    /\ pc = "done" => (calls = StageOrder /\ graphs = GraphFiles /\ day_df # <<>>)

\* main has returned after the Day Bucketer gave no DayWindow
C9_Witness ==
    /\ pc = "returned"
    /\ sleep_df # <<>>
    /\ day_df = <<>>
    /\ stdout = <<"No day metrics computed.">>

=============================================================================
